---- MODULE Spec2Model ----
(***************************************************************************)
(* User migration scripts (tasks/backend/14-11-2025/user-migration):       *)
(* transformation of source user records into target "user"/"account"     *)
(* rows, SQL text emission, batching, the id mapping file and the load      *)
(* into the target store.                                                   *)
(*                                                                          *)
(* Text is a sequence of tokens; the apostrophe chr(39) is the token "'".   *)
(* A Python value is a record tagged by its kind k.                         *)
(***************************************************************************)
EXTENDS Integers, Sequences, FiniteSets, TLC

VARIABLES
    xfUser, xfDirect, xfMcp, xfExtract, xfFast,
    usersLog, pc, users, start_idx, batch_num, total_mapping,
    batchFiles, mappingFile, uuidNext, runs,
    userTable, accountTable, bulkSql, loaderResult, dbNext, lastImport,
    applied, lastApply

xfVars == <<xfUser, xfDirect, xfMcp, xfExtract, xfFast>>
mcpVars == <<usersLog, pc, users, start_idx, batch_num, total_mapping,
             batchFiles, mappingFile, uuidNext, runs>>
storeVars == <<userTable, accountTable, bulkSql, loaderResult, dbNext, lastImport,
               applied, lastApply>>
vars == <<xfVars, mcpVars, storeVars>>

----------------------------------------------------------------------------
(* Python values *)

None == [k |-> "none"]
Missing == [k |-> "missing"]
Default == [k |-> "default"]
Str(s) == [k |-> "str", s |-> s]
Bool(b) == [k |-> "bool", b |-> b]
Dict(fn, ev) == [k |-> "dict", full_name |-> fn, email_verified |-> ev]
EmptyDict == Dict(Missing, Missing)

\* d.get(key, default): the default only when the key is absent
Get(v, default) == IF v.k = "missing" THEN default ELSE v

\* Python truthiness, as used by `x or y` and `if x`
Truthy(v) ==
    CASE v.k = "none" -> FALSE
      [] v.k = "missing" -> FALSE
      [] v.k = "bool" -> v.b
      [] v.k = "str" -> v.s # <<>>
      [] OTHER -> TRUE

Or(v, w) == IF Truthy(v) THEN v ELSE w

Q == "'"

RECURSIVE ReplaceQuote(_)
\* s.replace("'", "''")
ReplaceQuote(s) ==
    IF s = <<>> THEN <<>>
    ELSE (IF Head(s) = Q THEN <<Q, Q>> ELSE <<Head(s)>>) \o ReplaceQuote(Tail(s))

RECURSIVE SplitAt0(_)
\* s.split('@')[0]
SplitAt0(s) ==
    IF s = <<>> \/ Head(s) = "@" THEN <<>>
    ELSE <<Head(s)>> \o SplitAt0(Tail(s))

RECURSIVE JsonEscape(_)
\* json.dumps of the characters of a string: '"' and '\' get a backslash,
\* the apostrophe is left as it is
JsonEscape(s) ==
    IF s = <<>> THEN <<>>
    ELSE (IF Head(s) \in {"\"", "\\"} THEN <<"\\", Head(s)>> ELSE <<Head(s)>>)
         \o JsonEscape(Tail(s))

JsonString(s) == <<"\"">> \o JsonEscape(s) \o <<"\"">>

JsonValue(v) ==
    CASE v.k = "str" -> JsonString(v.s)
      [] v.k = "bool" -> IF v.b THEN <<"true">> ELSE <<"false">>
      [] OTHER -> <<"null">>

\* json.dumps(dict): the keys in their order, separated by ", " and ": "
JsonDumps(d) ==
    LET fn == IF d.full_name.k = "missing" THEN <<>>
              ELSE <<JsonString(<<"full_name">>) \o <<": ">> \o JsonValue(d.full_name)>>
        ev == IF d.email_verified.k = "missing" THEN <<>>
              ELSE <<JsonString(<<"email_verified">>) \o <<": ">> \o JsonValue(d.email_verified)>>
        items == fn \o ev
    IN  <<"{">>
        \o (IF items = <<>> THEN <<>>
            ELSE IF Len(items) = 1 THEN items[1]
            ELSE items[1] \o <<", ">> \o items[2])
        \o <<"}">>

\* f"'{text}'": the text put between apostrophes as it is
Quoted(s) == <<Q>> \o s \o <<Q>>

\* escape_sql(value) of import-via-mcp.py
escape_sql(value) ==
    CASE value.k = "none" -> <<"NULL">>
      [] value.k = "bool" -> IF value.b THEN <<"true">> ELSE <<"false">>
      [] value.k = "int" -> value.s
      [] value.k = "dict" -> Quoted(JsonDumps(value)) \o <<"::json">>
      [] OTHER -> Quoted(ReplaceQuote(value.s))

----------------------------------------------------------------------------
(* Reading an SQL literal back, as the target store reads it *)

RECURSIVE ReadString(_, _, _)
\* the characters of a string literal from position i on: '' is an
\* apostrophe, a single ' ends the literal, and nothing but a type cast may
\* follow it
ReadString(lit, i, acc) ==
    IF i > Len(lit) THEN [ok |-> FALSE, v |-> None]
    ELSE IF lit[i] # Q THEN ReadString(lit, i + 1, Append(acc, lit[i]))
    ELSE IF i < Len(lit) /\ lit[i + 1] = Q THEN ReadString(lit, i + 2, Append(acc, Q))
    ELSE IF i = Len(lit) \/ (i + 1 = Len(lit) /\ lit[i + 1] = "::json")
         THEN [ok |-> TRUE, v |-> Str(acc)]
    ELSE [ok |-> FALSE, v |-> None]

ParseLiteral(lit) ==
    CASE lit = <<"NULL">> -> [ok |-> TRUE, v |-> None]
      [] lit = <<"true">> -> [ok |-> TRUE, v |-> Bool(TRUE)]
      [] lit = <<"false">> -> [ok |-> TRUE, v |-> Bool(FALSE)]
      [] lit = <<"gen_random_uuid()">> -> [ok |-> TRUE, v |-> Default]
      [] lit = <<"NOW()">> -> [ok |-> TRUE, v |-> Str(<<"NOW()">>)]
      [] lit = <<"id">> -> [ok |-> TRUE, v |-> Default]
      [] lit # <<>> /\ lit[1] = Q -> ReadString(lit, 2, <<>>)
      [] OTHER -> [ok |-> FALSE, v |-> None]

----------------------------------------------------------------------------
(* Statements and rows *)

UserCols == {"id", "name", "email", "email_verified", "image", "created_at",
             "updated_at", "role", "is_active", "activation_status",
             "last_active_at", "supabase_user_id", "raw_user_meta_data"}
AccountCols == {"id", "account_id", "provider_id", "user_id", "password",
                "created_at", "updated_at"}

ColsOf(tbl) == IF tbl = "user" THEN UserCols ELSE AccountCols

UserStmt(c) == [tbl |-> "user", c |-> c]
AccountStmt(c) == [tbl |-> "account", c |-> c]

\* every literal of the statement can be read
StmtOk(stmt) == \A col \in DOMAIN stmt.c : ParseLiteral(stmt.c[col]).ok

\* the row a statement inserts: each listed column's literal read back, a
\* column the statement does not list takes the table's default
RowOf(stmt) ==
    [col \in ColsOf(stmt.tbl) |->
        IF col \in DOMAIN stmt.c THEN ParseLiteral(stmt.c[col]).v ELSE Default]

Meta(user) == Get(user.raw_user_meta_data, EmptyDict)

Uuid(n) == "U" \o ToString(n)

----------------------------------------------------------------------------
(* bulk-import-remaining.py: import_users_to_neon, the parameter tuples *)

DirectName(user) == Get(Meta(user).full_name, user.email)

DirectUserRow(user) ==
    [id |-> user.id,
     email |-> user.email,
     email_verified |-> Bool(TRUE),
     image |-> None,
     name |-> DirectName(user),
     created_at |-> user.created_at,
     updated_at |-> user.updated_at,
     role |-> Str(<<"user">>),
     is_active |-> Bool(TRUE),
     activation_status |-> Str(<<"active">>),
     last_active_at |-> user.updated_at,
     supabase_user_id |-> user.id,
     raw_user_meta_data |-> Str(JsonDumps(Meta(user)))]

DirectAccountRow(user) ==
    [id |-> Default,
     account_id |-> user.id,
     provider_id |-> Str(<<"credential">>),
     user_id |-> user.id,
     password |-> None,
     created_at |-> user.created_at,
     updated_at |-> user.updated_at]

----------------------------------------------------------------------------
(* import-via-mcp.py: generate_user_batch_sql *)

McpName(user) == Or(Get(Meta(user).full_name, None), Str(SplitAt0(user.email.s)))

McpEmailVerified(user) == Get(Meta(user).email_verified, Bool(FALSE))

\* user['is_active'] and user['activation_status'] raise KeyError on a record
\* without the key
McpRaises(user) == user.is_active.k = "missing" \/ user.activation_status.k = "missing"

McpUserSql(user, new_user_id) ==
    UserStmt(
    [id |-> escape_sql(Str(<<new_user_id>>)),
     name |-> escape_sql(McpName(user)),
     email |-> escape_sql(user.email),
     email_verified |-> escape_sql(McpEmailVerified(user)),
     image |-> <<"NULL">>,
     created_at |-> escape_sql(user.created_at),
     updated_at |-> escape_sql(user.updated_at),
     role |-> Quoted(<<"user">>),
     is_active |-> escape_sql(user.is_active),
     activation_status |-> escape_sql(user.activation_status),
     last_active_at |-> escape_sql(Get(user.last_active_at, None)),
     supabase_user_id |-> escape_sql(user.id),
     raw_user_meta_data |-> escape_sql(Meta(user))])

\* a slip: the account's user_id takes the account's own identifier
McpAccountUserIdOwn(new_user_id, account_id) == account_id

\* {escape_sql(new_user_id)} of the account insert
McpAccountUserId(new_user_id, account_id) == new_user_id

McpAccountSql(user, new_user_id, account_id) ==
    AccountStmt(
    [id |-> escape_sql(Str(<<account_id>>)),
     account_id |-> escape_sql(user.email),
     provider_id |-> Quoted(<<"credential">>),
     user_id |-> escape_sql(Str(<<McpAccountUserId(new_user_id, account_id)>>)),
     password |-> <<"NULL">>,
     created_at |-> escape_sql(user.created_at),
     updated_at |-> escape_sql(user.updated_at)])

\* the batch size of the loop: range(0, len(users), 50) and the argument 50
BatchSize == 50

\* a slip: the slice ends one record early
SliceShort(seq, from, to) ==
    LET hi == IF to - 1 < Len(seq) THEN to - 1 ELSE Len(seq)
    IN  IF from >= hi THEN <<>> ELSE SubSeq(seq, from + 1, hi)

\* users[start_idx:start_idx + batch_size]
Slice(seq, from, to) ==
    LET hi == IF to < Len(seq) THEN to ELSE Len(seq)
    IN  IF from >= hi THEN <<>> ELSE SubSeq(seq, from + 1, hi)

\* the two uuid4() draws of the j-th record of a batch: u0 is the number of
\* draws made before the batch, and every draw is a new identifier
McpNewUserId(u0, j) == Uuid(u0 + 2 * j - 1)
McpNewAccountId(u0, j) == Uuid(u0 + 2 * j)

\* generate_user_batch_sql(users, start_idx, batch_size): the statements and
\* the mapping it returns, or the KeyError it raises
generate_user_batch_sql(us, start, batch_size, u0) ==
    LET batch == Slice(us, start, start + batch_size)
        n == Len(batch)
        keys == {batch[j].id.s : j \in 1..n}
        last(sid) == CHOOSE j \in 1..n :
                        /\ batch[j].id.s = sid
                        /\ \A i \in 1..n : batch[i].id.s = sid => i <= j
    IN  IF \E j \in 1..n : McpRaises(batch[j])
        THEN [raised |-> TRUE]
        ELSE [raised |-> FALSE,
              sql_statements |->
                [i \in 1..(2 * n) |->
                    LET j == (i + 1) \div 2
                    IN  IF i % 2 = 1
                        THEN McpUserSql(batch[j], McpNewUserId(u0, j))
                        ELSE McpAccountSql(batch[j], McpNewUserId(u0, j),
                                           McpNewAccountId(u0, j))],
              user_mapping |-> [sid \in keys |-> McpNewUserId(u0, last(sid))],
              draws |-> 2 * n]

----------------------------------------------------------------------------
(* extract-and-import.py: generate_import_sql, the statement of one user *)

ExtractName(user_data) ==
    Or(Get(user_data.full_name, None), Str(SplitAt0(user_data.email.s)))

ExtractActivationStatus(user_data) ==
    IF Truthy(Get(user_data.last_sign_in_at, None)) THEN <<"active">> ELSE <<"inactive">>

ExtractUserSql(user_data) ==
    LET last_sign_in == Get(user_data.last_sign_in_at, None)
        full_name == ReplaceQuote(ExtractName(user_data).s)
        email == ReplaceQuote(user_data.email.s)
        raw_meta == ReplaceQuote(JsonDumps(Meta(user_data)))
    IN  UserStmt(
        [id |-> <<"gen_random_uuid()">>,
         email |-> Quoted(email),
         name |-> Quoted(full_name),
         image |-> <<"NULL">>,
         created_at |-> Quoted(user_data.created_at.s),
         updated_at |-> Quoted(user_data.updated_at.s),
         email_verified |-> <<"true">>,
         is_active |-> <<"true">>,
         activation_status |-> Quoted(ExtractActivationStatus(user_data)),
         last_active_at |-> IF Truthy(last_sign_in) THEN Quoted(last_sign_in.s) ELSE <<"NULL">>,
         supabase_user_id |-> Quoted(user_data.id.s),
         raw_user_meta_data |-> Quoted(raw_meta)])

ExtractAccountSql(user_data) ==
    AccountStmt(
    [id |-> <<"gen_random_uuid()">>,
     user_id |-> <<"id">>,
     account_id |-> Quoted(ReplaceQuote(user_data.email.s)),
     provider_id |-> Quoted(<<"credential">>),
     password |-> <<"NULL">>,
     created_at |-> <<"NOW()">>,
     updated_at |-> <<"NOW()">>])

\* the file body between BEGIN and COMMIT: per user one WITH ... INSERT
\* statement, written here as its user part followed by its account part
generate_import_sql(us) ==
    [i \in 1..(2 * Len(us)) |->
        IF i % 2 = 1 THEN ExtractUserSql(us[(i + 1) \div 2])
        ELSE ExtractAccountSql(us[(i + 1) \div 2])]

----------------------------------------------------------------------------
(* fast-import.py: generate_user_import_sql, the statements of one user *)

FastName(user_data) == Get(Meta(user_data).full_name, Str(SplitAt0(user_data.email.s)))

\* str(x).lower() of the email_verified flag
FastEmailVerified(user_data) ==
    LET ev == Get(Meta(user_data).email_verified, Bool(FALSE))
    IN  CASE ev.k = "bool" -> IF ev.b THEN <<"true">> ELSE <<"false">>
          [] ev.k = "none" -> <<"none">>
          [] OTHER -> ev.s

FastUserSql(user_data, user_id) ==
    UserStmt(
    [id |-> Quoted(<<user_id>>),
     email |-> Quoted(user_data.email.s),
     name |-> Quoted(ReplaceQuote(FastName(user_data).s)),
     image |-> <<"NULL">>,
     created_at |-> Quoted(user_data.created_at.s),
     updated_at |-> Quoted(user_data.updated_at.s),
     email_verified |-> FastEmailVerified(user_data),
     is_active |-> <<"true">>,
     activation_status |-> Quoted(<<"active">>),
     last_active_at |-> IF Truthy(Get(user_data.last_sign_in_at, None))
                        THEN Quoted(user_data.last_sign_in_at.s) ELSE <<"NULL">>,
     supabase_user_id |-> Quoted(user_data.id.s),
     raw_user_meta_data |-> Quoted(ReplaceQuote(JsonDumps(Meta(user_data))))])

FastAccountSql(user_data, user_id, account_id) ==
    AccountStmt(
    [id |-> Quoted(<<account_id>>),
     user_id |-> Quoted(<<user_id>>),
     account_id |-> Quoted(user_data.email.s),
     provider_id |-> Quoted(<<"credential">>),
     password |-> <<"NULL">>,
     created_at |-> Quoted(user_data.created_at.s),
     updated_at |-> Quoted(user_data.updated_at.s)])

generate_user_import_sql(us, u0) ==
    [i \in 1..(2 * Len(us)) |->
        LET j == (i + 1) \div 2
        IN  IF i % 2 = 1 THEN FastUserSql(us[j], Uuid(u0 + 2 * j - 1))
            ELSE FastAccountSql(us[j], Uuid(u0 + 2 * j - 1), Uuid(u0 + 2 * j))]

----------------------------------------------------------------------------
(* Source records *)

\* one record of the exported JSON array (import-all-users-neon.py, the
\* query of the template: id, email, created_at, updated_at,
\* raw_user_meta_data, last_sign_in_at, is_active, activation_status,
\* last_active_at); a key a record may lack is Missing
SourceUser(id, email, meta, sign_in, active) ==
    [id |-> Str(id),
     email |-> Str(email),
     created_at |-> Str(<<"2025-01-01">>),
     updated_at |-> Str(<<"2025-02-02">>),
     raw_user_meta_data |-> meta,
     full_name |-> Missing,
     last_sign_in_at |-> sign_in,
     is_active |-> active,
     activation_status |->
        IF active.k = "missing" THEN Missing
        ELSE IF active.b THEN Str(<<"active">>) ELSE Str(<<"inactive">>),
     last_active_at |->
        IF active.k = "missing" THEN Missing
        ELSE IF sign_in.k = "str" THEN sign_in ELSE Str(<<"2025-02-02">>)]

Emails == {<<"bob", "@", "example.com">>, <<"o", Q, "brien", "@", "example.com">>}
Names == {Missing, Str(<<"Jane Doe">>), Str(<<"D", Q, "Arcy">>)}
Metas == {Missing} \cup {Dict(fn, ev) : fn \in Names, ev \in {Missing, Bool(TRUE)}}
SignIns == {None, Str(<<"2025-03-03">>)}
Actives == {Missing, Bool(TRUE), Bool(FALSE)}

XfUsers ==
    {SourceUser(<<"S1">>, e, m, s, a) :
        e \in Emails, m \in Metas, s \in SignIns, a \in Actives}

NotRun == [st |-> "none", out |-> <<>>]
Ran(out) == [st |-> "ok", out |-> out]
Raised == [st |-> "raised", out |-> <<>>]

McpIdle ==
    /\ usersLog = <<>>
    /\ pc = "off"
    /\ users = <<>>
    /\ start_idx = 0
    /\ batch_num = 1
    /\ total_mapping = <<>>
    /\ batchFiles = <<>>
    /\ mappingFile = [exists |-> FALSE, map |-> <<>>]
    /\ uuidNext = 0
    /\ runs = 0

StoreIdle ==
    /\ userTable = {}
    /\ accountTable = {}
    /\ bulkSql = [exists |-> FALSE, body |-> <<>>]
    /\ loaderResult = "none"
    /\ dbNext = 0
    /\ lastImport = [n |-> 0, users |-> <<>>, nUsers |-> 0, nAccounts |-> 0]
    /\ applied = {}
    /\ lastApply = [result |-> "none", again |-> FALSE, changed |-> FALSE]

XfIdle ==
    /\ xfUser = SourceUser(<<"S1">>, <<"bob", "@", "example.com">>, Missing, None, Bool(TRUE))
    /\ xfDirect = NotRun
    /\ xfMcp = NotRun
    /\ xfExtract = NotRun
    /\ xfFast = NotRun

----------------------------------------------------------------------------
(* The transformers applied to one source record *)

XfInit ==
    /\ xfUser \in XfUsers
    /\ xfDirect = NotRun
    /\ xfMcp = NotRun
    /\ xfExtract = NotRun
    /\ xfFast = NotRun
    /\ McpIdle
    /\ StoreIdle

XfRunDirect ==
    /\ xfDirect.st = "none"
    /\ xfDirect' = Ran(<<DirectUserRow(xfUser), DirectAccountRow(xfUser)>>)
    /\ UNCHANGED <<xfUser, xfMcp, xfExtract, xfFast, mcpVars, storeVars>>

XfRunMcp ==
    /\ xfMcp.st = "none"
    /\ LET r == generate_user_batch_sql(<<xfUser>>, 0, BatchSize, 0)
       IN  xfMcp' = IF r.raised THEN Raised ELSE Ran(r.sql_statements)
    /\ UNCHANGED <<xfUser, xfDirect, xfExtract, xfFast, mcpVars, storeVars>>

XfRunExtract ==
    /\ xfExtract.st = "none"
    /\ xfExtract' = Ran(generate_import_sql(<<xfUser>>))
    /\ UNCHANGED <<xfUser, xfDirect, xfMcp, xfFast, mcpVars, storeVars>>

XfRunFast ==
    /\ xfFast.st = "none"
    /\ xfFast' = Ran(generate_user_import_sql(<<xfUser>>, 0))
    /\ UNCHANGED <<xfUser, xfDirect, xfMcp, xfExtract, mcpVars, storeVars>>

XfNext == XfRunDirect \/ XfRunMcp \/ XfRunExtract \/ XfRunFast

SpecXform == XfInit /\ [][XfNext]_vars

----------------------------------------------------------------------------
(* Claims about the transformers (SpecXform) *)

ReadsBack(lit, v) == ParseLiteral(lit).ok /\ ParseLiteral(lit).v = v

\* the user rows the four transformers have produced for xfUser
XfUserRows ==
    (IF xfDirect.st = "ok" THEN {xfDirect.out[1]} ELSE {})
    \cup (IF xfMcp.st = "ok" THEN {RowOf(xfMcp.out[1])} ELSE {})
    \cup (IF xfExtract.st = "ok" THEN {RowOf(xfExtract.out[1])} ELSE {})
    \cup (IF xfFast.st = "ok" THEN {RowOf(xfFast.out[1])} ELSE {})

\* C7: the rows of the direct-executing loader and the rows read back from
\* the statements generate_user_batch_sql emits for the same source user are
\* equal column by column, the generated identifiers (user id, account id,
\* account user_id) aside.
C7_SameRowsBothModes ==
    (xfDirect.st = "ok" /\ xfMcp.st = "ok") =>
        /\ StmtOk(xfMcp.out[1]) /\ StmtOk(xfMcp.out[2])
        /\ \A col \in UserCols \ {"id"} :
              xfDirect.out[1][col] = RowOf(xfMcp.out[1])[col]
        /\ \A col \in AccountCols \ {"id", "user_id"} :
              xfDirect.out[2][col] = RowOf(xfMcp.out[2])[col]

McpReadsBack ==
    LET u == xfMcp.out[1].c
        a == xfMcp.out[2].c
    IN  /\ ReadsBack(u.email, xfUser.email)
        /\ ReadsBack(u.name, McpName(xfUser))
        /\ ReadsBack(u.supabase_user_id, xfUser.id)
        /\ ReadsBack(u.created_at, xfUser.created_at)
        /\ ReadsBack(u.updated_at, xfUser.updated_at)
        /\ ReadsBack(u.raw_user_meta_data, Str(JsonDumps(Meta(xfUser))))
        /\ ReadsBack(a.account_id, xfUser.email)
        /\ ReadsBack(a.created_at, xfUser.created_at)
        /\ ReadsBack(a.updated_at, xfUser.updated_at)

FastReadsBack ==
    LET u == xfFast.out[1].c
        a == xfFast.out[2].c
    IN  /\ ReadsBack(u.email, xfUser.email)
        /\ ReadsBack(u.name, FastName(xfUser))
        /\ ReadsBack(u.supabase_user_id, xfUser.id)
        /\ ReadsBack(u.created_at, xfUser.created_at)
        /\ ReadsBack(u.updated_at, xfUser.updated_at)
        /\ ReadsBack(u.raw_user_meta_data, Str(JsonDumps(Meta(xfUser))))
        /\ ReadsBack(a.account_id, xfUser.email)
        /\ ReadsBack(a.created_at, xfUser.created_at)
        /\ ReadsBack(a.updated_at, xfUser.updated_at)

ExtractReadsBack ==
    LET u == xfExtract.out[1].c
        a == xfExtract.out[2].c
    IN  /\ ReadsBack(u.email, xfUser.email)
        /\ ReadsBack(u.name, ExtractName(xfUser))
        /\ ReadsBack(u.supabase_user_id, xfUser.id)
        /\ ReadsBack(u.created_at, xfUser.created_at)
        /\ ReadsBack(u.updated_at, xfUser.updated_at)
        /\ ReadsBack(u.raw_user_meta_data, Str(JsonDumps(Meta(xfUser))))
        /\ ReadsBack(a.account_id, xfUser.email)

\* C8: every source-derived text value a script embeds into a statement
\* (email, name, source id, timestamps, serialized metadata) is emitted as
\* a well-formed string literal that reads back as the original value.
C8_LiteralsReadBack ==
    /\ xfMcp.st = "ok" => McpReadsBack
    /\ xfFast.st = "ok" => FastReadsBack
    /\ xfExtract.st = "ok" => ExtractReadsBack

JointlyDerived(row) ==
    /\ row.is_active = Bool(TRUE) <=> row.activation_status = Str(<<"active">>)
    /\ row.is_active = Bool(FALSE) <=> row.activation_status = Str(<<"inactive">>)

\* C9: in every user row a transformer produces, is_active is true exactly
\* when activation_status is 'active' and false exactly when it is
\* 'inactive'.
C9_ActiveJointlyDerived == \A row \in XfUserRows : JointlyDerived(row)

----------------------------------------------------------------------------
(* import-via-mcp.py, the script: load, one batch file per loop iteration, *)
(* the mapping file                                                        *)

MaxUsers == 125
MaxRuns == 2

\* the i-th record of an exported log
LogUser(i, keyed) ==
    SourceUser(<<"S" \o ToString(i)>>,
               IF i % 7 = 3 THEN <<"o", Q, "brien" \o ToString(i), "@", "example.com">>
               ELSE <<"user" \o ToString(i), "@", "example.com">>,
               CASE i % 3 = 0 -> Missing
                 [] i % 3 = 1 -> Dict(Str(<<"Jane Doe">>), Missing)
                 [] OTHER -> Dict(Str(<<"D", Q, "Arcy">>), Bool(TRUE)),
               IF i % 2 = 0 THEN None ELSE Str(<<"2025-03-03">>),
               IF keyed THEN Bool(i % 4 # 0) ELSE Missing)

NumBatches(n) == (n + BatchSize - 1) \div BatchSize

\* a log of n records; bad = 0, or the number of the batch whose first
\* record has no is_active / activation_status key
Log(n, bad) == [i \in 1..n |-> LogUser(i, bad = 0 \/ i # (bad - 1) * BatchSize + 1)]

McpLogs == {Log(n, bad) : n \in 0..MaxUsers, bad \in 0..NumBatches(MaxUsers)}

\* batch_file.write_text(...): file number b is created or overwritten
WriteBatchFile(files, b, statements) ==
    IF b <= Len(files) THEN [files EXCEPT ![b] = statements]
    ELSE Append(files, statements)

\* lines 98-105: users = extract_json(USERS_LOG); batch_num = 1;
\* total_mapping = {}
McpLoad ==
    /\ pc \in {"off", "done", "raised"}
    /\ runs < MaxRuns
    /\ runs' = runs + 1
    /\ users' = usersLog
    /\ batch_num' = 1
    /\ total_mapping' = <<>>
    /\ start_idx' = 0
    /\ pc' = "loop"
    /\ UNCHANGED <<usersLog, batchFiles, mappingFile, uuidNext, xfVars, storeVars>>

\* lines 108-118: one iteration of the loop over range(0, len(users), 50);
\* an exception of generate_user_batch_sql ends the script
McpBatch ==
    /\ pc = "loop"
    /\ start_idx < Len(users)
    /\ LET r == generate_user_batch_sql(users, start_idx, BatchSize, uuidNext)
       IN  IF r.raised
           THEN /\ pc' = "raised"
                /\ UNCHANGED <<total_mapping, batchFiles, batch_num, start_idx, uuidNext>>
           ELSE /\ total_mapping' = r.user_mapping @@ total_mapping
                /\ batchFiles' = WriteBatchFile(batchFiles, batch_num, r.sql_statements)
                /\ batch_num' = batch_num + 1
                /\ start_idx' = start_idx + BatchSize
                /\ uuidNext' = uuidNext + r.draws
                /\ pc' = "loop"
    /\ UNCHANGED <<usersLog, users, mappingFile, runs, xfVars, storeVars>>

\* lines 121-122: mapping_file.write_text(json.dumps(total_mapping))
McpSave ==
    /\ pc = "loop"
    /\ start_idx >= Len(users)
    /\ mappingFile' = [exists |-> TRUE, map |-> total_mapping]
    /\ pc' = "done"
    /\ UNCHANGED <<usersLog, users, start_idx, batch_num, total_mapping, batchFiles,
                   uuidNext, runs, xfVars, storeVars>>

McpInit ==
    /\ usersLog \in McpLogs
    /\ pc = "off"
    /\ users = <<>>
    /\ start_idx = 0
    /\ batch_num = 1
    /\ total_mapping = <<>>
    /\ batchFiles = <<>>
    /\ mappingFile = [exists |-> FALSE, map |-> <<>>]
    /\ uuidNext = 0
    /\ runs = 0
    /\ XfIdle
    /\ StoreIdle

McpNext == McpLoad \/ McpBatch \/ McpSave

SpecMcp == McpInit /\ [][McpNext]_vars

----------------------------------------------------------------------------
(* Claims about the script import-via-mcp.py (SpecMcp) *)

\* the batch files the current run has written so far
RunBatches == batch_num - 1

\* the source ids of the user statements of batch file k, in file order
BatchIds(k) ==
    [j \in 1..(Len(batchFiles[k]) \div 2) |->
        ParseLiteral(batchFiles[k][2 * j - 1].c.supabase_user_id).v]

RECURSIVE ConcatBatchIds(_)
ConcatBatchIds(k) == IF k = 0 THEN <<>> ELSE ConcatBatchIds(k - 1) \o BatchIds(k)

RECURSIVE RunStatements(_)
\* the statements of batch files 1..k, in order
RunStatements(k) == IF k = 0 THEN <<>> ELSE RunStatements(k - 1) \o batchFiles[k]

Covered == IF start_idx < Len(users) THEN start_idx ELSE Len(users)

\* C6: the batches of the loop each hold at most BatchSize (50) records,
\* only the last is shorter, their concatenation in batch order is the
\* input sequence, and an empty input yields no batch.
C6_Batching ==
    pc \in {"loop", "done"} =>
        /\ \A k \in 1..RunBatches :
              /\ Len(batchFiles[k]) \div 2 \in 1..BatchSize
              /\ k < RunBatches => Len(batchFiles[k]) \div 2 = BatchSize
        /\ ConcatBatchIds(RunBatches) = [i \in 1..Covered |-> users[i].id]
        /\ pc = "done" => Covered = Len(users)
        /\ Len(users) = 0 => RunBatches = 0

\* 125 records have been split into batches of 50, 50 and 25
C6_Witness ==
    /\ pc = "done"
    /\ Len(users) = 2 * BatchSize + 25
    /\ RunBatches = 3
    /\ Len(batchFiles[1]) \div 2 = BatchSize
    /\ Len(batchFiles[2]) \div 2 = BatchSize
    /\ Len(batchFiles[3]) \div 2 = 25

DistinctIds(us) == \A i, j \in 1..Len(us) : us[i].id = us[j].id => i = j

\* C10: after one run over records with pairwise distinct ids the saved
\* mapping has exactly one entry per source record; the target id it gives
\* a source id is the id of the emitted user row with that supabase_user_id
\* and the user_id of the account row emitted directly after it; the target
\* ids are pairwise distinct.
C10_MappingMatchesStatements ==
    (pc = "done" /\ DistinctIds(users)) =>
        LET st == RunStatements(RunBatches)
            m == mappingFile.map
        IN  /\ mappingFile.exists
            /\ DOMAIN m = {users[i].id.s : i \in 1..Len(users)}
            /\ Cardinality(DOMAIN m) = Len(users)
            /\ Len(st) = 2 * Len(users)
            /\ \A i \in 1..Len(users) :
                  \E p \in 1..(Len(st) - 1) :
                     /\ st[p].tbl = "user"
                     /\ ReadsBack(st[p].c.supabase_user_id, users[i].id)
                     /\ ReadsBack(st[p].c.id, Str(<<m[users[i].id.s]>>))
                     /\ st[p + 1].tbl = "account"
                     /\ ReadsBack(st[p + 1].c.user_id, Str(<<m[users[i].id.s]>>))
            /\ \A p \in 1..Len(st) :
                  st[p].tbl = "user" =>
                     LET sid == ParseLiteral(st[p].c.supabase_user_id).v
                     IN  /\ sid.s \in DOMAIN m
                         /\ ReadsBack(st[p].c.id, Str(<<m[sid.s]>>))
            /\ \A a, b \in DOMAIN m : m[a] = m[b] => a = b

\* a run over more than one batch has saved its mapping
C10_Witness ==
    /\ pc = "done"
    /\ Len(users) > BatchSize
    /\ DistinctIds(users)
    /\ Cardinality(DOMAIN mappingFile.map) = Len(users)

\* C4: the mapping file is append-only across runs: an entry once written
\* is never removed and never mapped to another target id.
C4_MappingAppendOnly ==
    [][mappingFile.exists =>
          /\ mappingFile'.exists
          /\ \A sid \in DOMAIN mappingFile.map :
                /\ sid \in DOMAIN mappingFile'.map
                /\ mappingFile'.map[sid] = mappingFile.map[sid]]_vars

\* the batches a finished run has attempted
AttemptedBatches == IF pc = "raised" THEN 1..batch_num ELSE 1..RunBatches

\* C5: a run in which one batch fails still attempts every other batch and
\* ends in Done.
C5_BatchIsolation ==
    pc \in {"done", "raised"} =>
        /\ AttemptedBatches = 1..NumBatches(Len(users))
        /\ pc = "done"

----------------------------------------------------------------------------
(* The target store: tables "user" and account with their constraints,   *)
(* and a transaction as the fold of its statements                        *)

\* a transaction in progress: the tables as it sees them, the identifiers
\* the store has generated, the id of the user row inserted last
Txn(u, a, n) == [ok |-> TRUE, u |-> u, a |-> a, n |-> n, last |-> None]

Abort(T) == [T EXCEPT !.ok = FALSE]

\* an identifier the store generates (a column default, gen_random_uuid())
StoreId(n) == Str(<<"D" \o ToString(n)>>)

\* user.id is the primary key, user.supabase_user_id is UNIQUE
UserIdTaken(T, row) == \E r \in T.u : r.id = row.id
SupabaseIdTaken(T, row) == \E r \in T.u : r.supabase_user_id = row.supabase_user_id

\* INSERT INTO "user" ... VALUES (...)
InsertUser(T, row0) ==
    LET row == IF row0.id.k = "default" THEN [row0 EXCEPT !.id = StoreId(T.n + 1)] ELSE row0
        n == IF row0.id.k = "default" THEN T.n + 1 ELSE T.n
    IN  IF UserIdTaken(T, row) \/ SupabaseIdTaken(T, row) THEN Abort(T)
        ELSE [T EXCEPT !.u = T.u \cup {row}, !.n = n, !.last = row.id]

\* INSERT INTO "user" ... ON CONFLICT (id) DO NOTHING: a taken id skips the
\* row, any other violated constraint is an error
InsertUserOnConflictId(T, row) ==
    IF UserIdTaken(T, row) THEN T ELSE InsertUser(T, row)

\* account.id is the primary key, (account_id, provider_id) is UNIQUE,
\* user_id references user.id
InsertAccount(T, row0) ==
    LET row1 == IF row0.id.k = "default" THEN [row0 EXCEPT !.id = StoreId(T.n + 1)] ELSE row0
        n == IF row0.id.k = "default" THEN T.n + 1 ELSE T.n
        row == IF row1.user_id.k = "default" THEN [row1 EXCEPT !.user_id = T.last] ELSE row1
    IN  IF \/ \E r \in T.a : r.id = row.id
           \/ \E r \in T.a : r.account_id = row.account_id /\ r.provider_id = row.provider_id
           \/ ~ \E r \in T.u : r.id = row.user_id
        THEN Abort(T)
        ELSE [T EXCEPT !.a = T.a \cup {row}, !.n = n]

\* a slip: the check looks at provider_id alone
AccountExistsProviderOnly(T, row) ==
    \E r \in T.a : r.provider_id = row.provider_id

\* SELECT 1 FROM account WHERE account_id = %s AND provider_id = %s
AccountExists(T, row) ==
    \E r \in T.a : r.account_id = row.account_id /\ r.provider_id = row.provider_id

\* INSERT INTO account ... SELECT ... WHERE NOT EXISTS (...)
InsertAccountWhereNotExists(T, row) ==
    IF AccountExists(T, row) THEN T ELSE InsertAccount(T, row)

\* one emitted statement, executed: a literal that cannot be read is a
\* syntax error
ExecStmt(T, stmt) ==
    IF ~StmtOk(stmt) THEN Abort(T)
    ELSE IF stmt.tbl = "user" THEN InsertUser(T, RowOf(stmt))
    ELSE InsertAccount(T, RowOf(stmt))

RECURSIVE ExecFrom(_, _, _)
\* the statements from the i-th on, until one fails
ExecFrom(stmts, i, T) ==
    IF ~T.ok \/ i > Len(stmts) THEN T
    ELSE ExecFrom(stmts, i + 1, ExecStmt(T, stmts[i]))

RECURSIVE ExecUserBatch(_, _, _)
\* execute_batch(cursor, user_query, user_inserts, page_size=50)
ExecUserBatch(us, i, T) ==
    IF ~T.ok \/ i > Len(us) THEN T
    ELSE ExecUserBatch(us, i + 1, InsertUserOnConflictId(T, DirectUserRow(us[i])))

RECURSIVE ExecAccountBatch(_, _, _)
\* execute_batch(cursor, account_query, account_inserts_with_check, page_size=50)
ExecAccountBatch(us, i, T) ==
    IF ~T.ok \/ i > Len(us) THEN T
    ELSE ExecAccountBatch(us, i + 1, InsertAccountWhereNotExists(T, DirectAccountRow(us[i])))

----------------------------------------------------------------------------
(* The scripts run against one export and one target store *)

MaxList == 2

\* the source users an export is drawn from: two plain ones, one sharing
\* the email of another, one with an apostrophe in its metadata
StoreUser(i) ==
    CASE i = 1 -> SourceUser(<<"S1">>, <<"bob", "@", "example.com">>, Missing, None, Bool(TRUE))
      [] i = 2 -> SourceUser(<<"S2">>, <<"o", Q, "brien", "@", "example.com">>,
                             Dict(Str(<<"Jane Doe">>), Bool(TRUE)), Str(<<"2025-03-03">>),
                             Bool(FALSE))
      [] i = 3 -> SourceUser(<<"S3">>, <<"bob", "@", "example.com">>, Dict(Missing, Missing),
                             Str(<<"2025-03-03">>), Bool(TRUE))
      [] OTHER -> SourceUser(<<"S4">>, <<"dee", "@", "example.com">>,
                             Dict(Str(<<"D", Q, "Arcy">>), Missing), None, Bool(TRUE))

\* an export holds each source user at most once, in the order of the query
\* (ORDER BY created_at)
StoreLogs ==
    {[j \in 1..Len(ix) |-> StoreUser(ix[j])] :
        ix \in {f \in UNION {[1..n -> 1..4] : n \in 0..MaxList} :
                   \A j \in 1..(Len(f) - 1) : f[j] < f[j + 1]}}

\* import_users_to_neon(users): both execute_batch calls in one transaction,
\* conn.commit() at the end; an exception leaves nothing committed
ImportUsersToNeon(us) ==
    LET T0 == Txn(userTable, accountTable, dbNext)
        T1 == ExecUserBatch(us, 1, T0)
        T2 == ExecAccountBatch(us, 1, T1)
        done == IF T2.ok THEN T2 ELSE T0
    IN  /\ userTable' = done.u
        /\ accountTable' = done.a
        /\ dbNext' = done.n
        /\ loaderResult' = IF T2.ok THEN "ok" ELSE "raised"
        /\ lastImport' =
              IF lastImport.n > 0 /\ lastImport.users = us
              THEN [lastImport EXCEPT !.n = 2]
              ELSE [n |-> 1, users |-> us, nUsers |-> Cardinality(done.u),
                    nAccounts |-> Cardinality(done.a)]
        /\ UNCHANGED <<bulkSql, applied, lastApply, mcpVars, xfVars>>

\* the list handed to import_users_to_neon: the export from an offset on
\* (fetch_remaining_users_from_supabase(offset)), a page possibly fetched twice
ImportInput(offset, twice) ==
    LET page == Slice(usersLog, offset, Len(usersLog))
    IN  IF twice THEN page \o page ELSE page

\* a file of statements run as one transaction against the target store
ApplyFile(content) ==
    LET T0 == Txn(userTable, accountTable, dbNext)
        T1 == ExecFrom(content, 1, T0)
        done == IF T1.ok THEN T1 ELSE T0
    IN  /\ userTable' = done.u
        /\ accountTable' = done.a
        /\ dbNext' = done.n
        /\ applied' = IF T1.ok THEN applied \cup {content} ELSE applied
        /\ lastApply' = [result |-> IF T1.ok THEN "ok" ELSE "failed",
                         again |-> content \in applied,
                         changed |-> done.u # userTable \/ done.a # accountTable]
        /\ lastImport' = [n |-> 0, users |-> <<>>, nUsers |-> 0, nAccounts |-> 0]
        /\ UNCHANGED <<bulkSql, loaderResult, mcpVars, xfVars>>

\* "Import each batch via Neon MCP: neon___run_sql_transaction"
ApplyBatchFile(k) ==
    /\ k \in 1..Len(batchFiles)
    /\ ApplyFile(batchFiles[k])

\* extract-and-import.py, the script: `if users:` generate_import_sql(users)
GenerateImportSql ==
    /\ usersLog # <<>>
    /\ bulkSql' = [exists |-> TRUE, body |-> generate_import_sql(usersLog)]
    /\ UNCHANGED <<userTable, accountTable, loaderResult, dbNext, lastImport, applied,
                   lastApply, mcpVars, xfVars>>

\* psql "<CONNECTION_STRING>" -f bulk-import.sql: BEGIN; ... COMMIT;
ApplyBulkSql ==
    /\ bulkSql.exists
    /\ ApplyFile(bulkSql.body)

Init ==
    /\ usersLog \in StoreLogs
    /\ pc = "off"
    /\ users = <<>>
    /\ start_idx = 0
    /\ batch_num = 1
    /\ total_mapping = <<>>
    /\ batchFiles = <<>>
    /\ mappingFile = [exists |-> FALSE, map |-> <<>>]
    /\ uuidNext = 0
    /\ runs = 0
    /\ XfIdle
    /\ StoreIdle

Next ==
    \/ McpLoad
    \/ McpBatch
    \/ McpSave
    \/ \E offset \in 0..Len(usersLog), twice \in BOOLEAN :
          ImportUsersToNeon(ImportInput(offset, twice))
    \/ \E k \in 1..Len(batchFiles) : ApplyBatchFile(k)
    \/ GenerateImportSql
    \/ ApplyBulkSql

Spec == Init /\ [][Next]_vars

----------------------------------------------------------------------------
(* Claims about the loaders and the target store (Spec) *)

UniqueSupabaseIds ==
    \A r1, r2 \in userTable : r1.supabase_user_id = r2.supabase_user_id => r1 = r2

UniqueAccountKeys ==
    \A r1, r2 \in accountTable :
        (r1.account_id = r2.account_id /\ r1.provider_id = r2.provider_id) => r1 = r2

\* C1: import_users_to_neon run a second time in a row on the same list
\* raises no error and leaves as many user and account rows as the first
\* run; no two user rows share a supabase_user_id, no two account rows an
\* (account_id, provider_id) pair.
C1_ImportIdempotent ==
    lastImport.n = 2 =>
        /\ loaderResult = "ok"
        /\ Cardinality(userTable) = lastImport.nUsers
        /\ Cardinality(accountTable) = lastImport.nAccounts
        /\ UniqueSupabaseIds
        /\ UniqueAccountKeys

\* C2: a generated SQL file applied to a store that has already received
\* it does not fail and leaves both tables unchanged; a source id is in the
\* user table at most once.
C2_FileReapplySafe ==
    /\ lastApply.again => (lastApply.result = "ok" /\ ~lastApply.changed)
    /\ UniqueSupabaseIds

\* C3: every committed user row has exactly one account row whose user_id
\* references it, and every committed account row references exactly one
\* user row.
C3_Pairing ==
    /\ \A u \in userTable : Cardinality({a \in accountTable : a.user_id = u.id}) = 1
    /\ \A a \in accountTable : Cardinality({u \in userTable : u.id = a.user_id}) = 1

\* a batch of two users and their accounts has been committed by applying
\* an emitted file, and the direct loader has run against that store
C3_Witness ==
    /\ Cardinality(userTable) = 2
    /\ Cardinality(accountTable) = 2
    /\ \E f \in applied : Len(f) = 4
    /\ lastImport.n > 0

====
